---- MODULE Spec2Model ----
(***************************************************************************)
(* A model of the chess rules engine of ChessEngine.py: the GameState      *)
(* object (board, side to move, king locations, en-passant target, move    *)
(* log, transient check/pin fields), its operations makeMove, undoMove and *)
(* getValidMoves, and the Move value class.                                *)
(*                                                                         *)
(* Conventions.  A square is a pair of a row and a column in 0..7, row 0   *)
(* being the black back rank.  A Python tuple t is a TLA+ tuple, so t[0]   *)
(* is t[1] here.  A Python list is a sequence.  The object `self` is a     *)
(* record of its attributes; a method that mutates self is an operator     *)
(* from the record to the record it leaves behind.                         *)
(***************************************************************************)
EXTENDS Integers, Sequences, FiniteSets, TLC

VARIABLES board, whiteToMove, moveLog, inCheck, pins, checks,
          blackKingLocation, whiteKingLocation, enpassantPossible,
          validMoves, queried, raised

vars == <<board, whiteToMove, moveLog, inCheck, pins, checks,
          blackKingLocation, whiteKingLocation, enpassantPossible,
          validMoves, queried, raised>>

\* ------------------------------------------------------------ bounds

\* Longest move log the caller builds before it stops asking for moves.
MaxPly == 3

\* ------------------------------------------------------------ pieces

Rows == 0..7

\* piece[0] of a two-character piece code: its colour, "-" for "--".
Char0(piece) ==
    CASE piece \in {"wp", "wR", "wN", "wB", "wQ", "wK"} -> "w"
      [] piece \in {"bp", "bR", "bN", "bB", "bQ", "bK"} -> "b"
      [] OTHER -> "-"

\* piece[1] of a two-character piece code: its kind, "-" for "--".
Char1(piece) ==
    CASE piece \in {"wp", "bp"} -> "p"
      [] piece \in {"wR", "bR"} -> "R"
      [] piece \in {"wN", "bN"} -> "N"
      [] piece \in {"wB", "bB"} -> "B"
      [] piece \in {"wQ", "bQ"} -> "Q"
      [] piece \in {"wK", "bK"} -> "K"
      [] OTHER -> "-"

\* Python's abs.
Abs(n) == IF n < 0 THEN -n ELSE n

\* A local variable: Body applied to the value of `value`, which is
\* computed once, however often Body reads it.
Bind(value, Body(_)) == CHOOSE result \in {Body(v) : v \in {value}} : TRUE

\* list.remove(x): drops the first element equal to x.
RECURSIVE ListRemove(_, _)
ListRemove(list, x) ==
    IF list = <<>> THEN <<>>
    ELSE IF Head(list) = x THEN Tail(list)
    ELSE <<Head(list)>> \o ListRemove(Tail(list), x)

\* The index the loop `for i in range(len(self.pins)-1, -1, -1)` stops at:
\* the last entry of pins on (row, col), 0 when there is none.
RECURSIVE PinIndex(_, _, _, _)
PinIndex(pinList, row, col, i) ==
    IF i = 0 THEN 0
    ELSE IF pinList[i][1] = row /\ pinList[i][2] = col THEN i
    ELSE PinIndex(pinList, row, col, i - 1)

\* ------------------------------------------------------------ class Move

Move(startSq, endSq, b, isEnpassantMove, isPawnPromotion) ==
    LET pieceMoved == b[startSq[1]][startSq[2]]
    IN [startRow        |-> startSq[1],
        startCol        |-> startSq[2],
        endRow          |-> endSq[1],
        endCol          |-> endSq[2],
        pieceMoved      |-> pieceMoved,
        pieceCaptured   |-> IF isEnpassantMove
                            THEN (IF pieceMoved = "wp" THEN "bp" ELSE "wp")
                            ELSE b[endSq[1]][endSq[2]],
        isPawnPromotion |-> isPawnPromotion,
        isEnpassantMove |-> isEnpassantMove,
        moveID          |-> 1000 * startSq[1] + 100 * startSq[2]
                            + 10 * endSq[1] + endSq[2]]

\* Move.__eq__: two moves are equal when their moveIDs are.
MoveEq(m1, m2) == m1.moveID = m2.moveID

\* ------------------------------------------------------------ check and pin detection

directions == << <<0, -1>>, <<-1, 0>>, <<0, 1>>, <<1, 0>>,
                 <<-1, -1>>, <<-1, 1>>, <<1, -1>>, <<1, 1>> >>

\* The knight's jumps with the jump two rows up and one column right left out.
knightMovesShort == << <<-2, -1>>, <<-1, -2>>, <<-1, 2>>,
                       <<1, -2>>, <<1, 2>>, <<2, -1>>, <<2, 1>> >>

knightMoves == << <<-2, -1>>, <<-2, 1>>, <<-1, -2>>, <<-1, 2>>,
                  <<1, -2>>, <<1, 2>>, <<2, -1>>, <<2, 1>> >>

\* `0 <= row < 8 and 0 <= col < 8`
OnBoard(row, col) == 0 <= row /\ row < 8 /\ 0 <= col /\ col < 8

\* The inner loop of checkForPinsAndChecks over j, for the direction of
\* Python index i, from step j on.  It yields what the loop appends:
\* <<"check", entry>>, <<"pin", entry>> or <<"none", <<>>>>.
RECURSIVE scanDirection(_, _, _, _, _, _, _, _)
scanDirection(b, enemyColor, allyColor, startRow, startCol, i, j, possiblePin) ==
    IF j > 7 THEN <<"none", <<>>>>
    ELSE
      LET d == directions[i + 1]
          endRow == startRow + d[1] * j
          endCol == startCol + d[2] * j
      IN IF OnBoard(endRow, endCol)
         THEN
           LET endPiece == b[endRow][endCol]
               type == Char1(endPiece)
           IN IF Char0(endPiece) = allyColor /\ Char1(endPiece) # "K"
              THEN IF possiblePin = <<>>
                   THEN scanDirection(b, enemyColor, allyColor, startRow, startCol,
                                      i, j + 1, <<endRow, endCol, d[1], d[2]>>)
                   ELSE <<"none", <<>>>>
              ELSE IF Char0(endPiece) = enemyColor
              THEN IF \/ (0 <= i /\ i <= 3 /\ type = "R")
                      \/ (4 <= i /\ i <= 7 /\ type = "B")
                      \/ (j = 1 /\ type = "p" /\
                            ((enemyColor = "w" /\ 6 <= i /\ i <= 7) \/
                             (enemyColor = "b" /\ 4 <= i /\ i <= 5)))
                      \/ type = "Q"
                      \/ (j = 1 /\ type = "K")
                   THEN IF possiblePin = <<>>
                        THEN <<"check", <<endRow, endCol, d[1], d[2]>>>>
                        ELSE <<"pin", possiblePin>>
                   ELSE <<"none", <<>>>>
              ELSE scanDirection(b, enemyColor, allyColor, startRow, startCol,
                                 i, j + 1, possiblePin)
         ELSE <<"none", <<>>>>

\* The entries of the given kind ("check" or "pin") among what the loop
\* over the directions found, in the order of the directions.
directionEntries(found, kind) ==
    LET OfKind(f) == f[1] = kind
        Entry(f) == f[2]
    IN Bind(SelectSeq(found, OfKind),
            LAMBDA kept : [k \in 1..Len(kept) |-> Entry(kept[k])])

\* The entries the knight loop of checkForPinsAndChecks appends to checks.
knightChecks(b, enemyColor, startRow, startCol) ==
    LET Hit(knightMove) ==
            /\ OnBoard(startRow + knightMove[1], startCol + knightMove[2])
            /\ Char0(b[startRow + knightMove[1]][startCol + knightMove[2]]) = enemyColor
            /\ Char1(b[startRow + knightMove[1]][startCol + knightMove[2]]) = "N"
    IN Bind(SelectSeq(knightMoves, Hit),
            LAMBDA hits : [k \in 1..Len(hits) |->
                             <<startRow + hits[k][1], startCol + hits[k][2],
                               hits[k][1], hits[k][2]>>])

\* GameState.checkForPinsAndChecks: reads self, returns (inCheck, pins, checks).
\* inCheck is set exactly when an entry is appended to checks.
checkForPinsAndChecks(self) ==
    LET enemyColor == IF self.whiteToMove THEN "b" ELSE "w"
        allyColor == IF self.whiteToMove THEN "w" ELSE "b"
        start == IF self.whiteToMove THEN self.whiteKingLocation
                 ELSE self.blackKingLocation
        Scan(i) == scanDirection(self.board, enemyColor, allyColor,
                                 start[1], start[2], i, 1, <<>>)
    IN Bind(<<Scan(0), Scan(1), Scan(2), Scan(3), Scan(4), Scan(5), Scan(6), Scan(7)>>,
            LAMBDA found :
              Bind(directionEntries(found, "check")
                     \o knightChecks(self.board, enemyColor, start[1], start[2]),
                   LAMBDA checked :
                     [inCheck |-> checked # <<>>,
                      pins |-> directionEntries(found, "pin"),
                      checks |-> checked]))

\* ------------------------------------------------------------ piece generators
\* Each generator takes self and the list `moves` it appends to, and yields
\* the pair [self, moves] it leaves: a generator removes the pin it uses
\* from self.pins, and getKingMoves writes the king-location attribute.

\* The smallest index of pins on (row, col) from i upward, 0 when none: where
\* the pin loop ends up when it does not break (the queen case of getRookMoves).
RECURSIVE PinIndexUp(_, _, _, _)
PinIndexUp(pinList, row, col, i) ==
    IF i > Len(pinList) THEN 0
    ELSE IF pinList[i][1] = row /\ pinList[i][2] = col THEN i
    ELSE PinIndexUp(pinList, row, col, i + 1)

getPawnMoves(self, row, col, moves) ==
    LET b == self.board
        idx == PinIndex(self.pins, row, col, Len(self.pins))
        piecePinned == idx # 0
        pinDirection == IF piecePinned THEN <<self.pins[idx][3], self.pins[idx][4]>>
                        ELSE <<>>
        pinsLeft == IF piecePinned THEN ListRemove(self.pins, self.pins[idx])
                    ELSE self.pins
        moveAmount == IF self.whiteToMove THEN -1 ELSE 1
        startRow == IF self.whiteToMove THEN 6 ELSE 1
        backRow == IF self.whiteToMove THEN 0 ELSE 7
        enemyColor == IF self.whiteToMove THEN "b" ELSE "w"
        \* pawn pushes
        push1 == /\ b[row + moveAmount][col] = "--"
                 /\ (~piecePinned \/ pinDirection = <<-1, 0>>)
        promo1 == push1 /\ row + moveAmount = backRow
        push2 == /\ push1
                 /\ row = startRow
                 /\ b[row + 2 * moveAmount][col] = "--"
        \* captures to the left
        left == /\ col - 1 >= 0
                /\ Char0(b[row + moveAmount][col - 1]) = enemyColor
                /\ (~piecePinned \/ pinDirection = <<-1, -1>>)
        promo2 == promo1 \/ (left /\ row + moveAmount = backRow)
        \* captures to the right
        right == /\ col + 1 < 8
                 /\ Char0(b[row + moveAmount][col + 1]) = enemyColor
                 /\ (~piecePinned \/ pinDirection = <<-1, 1>>)
        promo3 == promo2 \/ (right /\ row + moveAmount = backRow)
    IN [self |-> [self EXCEPT !.pins = pinsLeft],
        moves |-> moves
            \o (IF push1
                THEN <<Move(<<row, col>>, <<row + moveAmount, col>>, b, FALSE, promo1)>>
                ELSE <<>>)
            \o (IF push2
                THEN <<Move(<<row, col>>, <<row + 2 * moveAmount, col>>, b, FALSE, FALSE)>>
                ELSE <<>>)
            \o (IF left
                THEN <<Move(<<row, col>>, <<row + moveAmount, col - 1>>, b, FALSE, promo2)>>
                ELSE <<>>)
            \o (IF right
                THEN <<Move(<<row, col>>, <<row + moveAmount, col + 1>>, b, FALSE, promo3)>>
                ELSE <<>>)]

rookDirections == << <<-1, 0>>, <<1, 0>>, <<0, -1>>, <<0, 1>> >>

\* The loop over i of getRookMoves for one direction, from step i on: the
\* moves it appends.
RECURSIVE rookRay(_, _, _, _, _, _, _, _)
rookRay(b, enemyColor, row, col, direction, piecePinned, pinDirection, i) ==
    IF i > 7 THEN <<>>
    ELSE
      LET endRow == row + direction[1] * i
          endCol == col + direction[2] * i
      IN IF 0 < endRow /\ endRow < 8 /\ 0 < endCol /\ endCol < 8
         THEN IF \/ ~piecePinned
                 \/ pinDirection = direction
                 \/ pinDirection = <<-direction[1], -direction[2]>>
              THEN LET endPiece == b[endRow][endCol]
                   IN IF endPiece = "--"
                      THEN <<Move(<<row, col>>, <<endRow, endCol>>, b, FALSE, FALSE)>>
                           \o rookRay(b, enemyColor, row, col, direction, piecePinned,
                                      pinDirection, i + 1)
                      ELSE IF Char0(endPiece) = enemyColor
                      THEN <<Move(<<row, col>>, <<endRow, endCol>>, b, FALSE, FALSE)>>
                      ELSE <<>>
              ELSE <<>>
         \* the square fails the test: the loop goes on to the next i
         ELSE rookRay(b, enemyColor, row, col, direction, piecePinned,
                      pinDirection, i + 1)

getRookMoves(self, row, col, moves) ==
    LET b == self.board
        enemyColor == IF self.whiteToMove THEN "b" ELSE "w"
        isQueen == Char1(b[row][col]) = "Q"
        idx == IF isQueen THEN PinIndexUp(self.pins, row, col, 1)
               ELSE PinIndex(self.pins, row, col, Len(self.pins))
        piecePinned == idx # 0
        pinDirection == IF piecePinned THEN <<self.pins[idx][3], self.pins[idx][4]>>
                        ELSE <<>>
        \* the queen's pin stays in the list for getBishopMoves
        pinsLeft == IF piecePinned /\ ~isQueen THEN ListRemove(self.pins, self.pins[idx])
                    ELSE self.pins
        Ray(k) == rookRay(b, enemyColor, row, col, rookDirections[k], piecePinned,
                          pinDirection, 1)
    IN [self |-> [self EXCEPT !.pins = pinsLeft],
        moves |-> moves \o Ray(1) \o Ray(2) \o Ray(3) \o Ray(4)]

bishopDirections == << <<-1, -1>>, <<-1, 1>>, <<1, -1>>, <<1, 1>> >>

\* The loop over i of getBishopMoves for one direction, from step i on: the
\* moves it appends.
RECURSIVE bishopRay(_, _, _, _, _, _, _, _)
bishopRay(b, enemyColor, row, col, direction, piecePinned, pinDirection, i) ==
    IF i > 7 THEN <<>>
    ELSE
      LET endRow == row + direction[1] * i
          endCol == col + direction[2] * i
      IN IF OnBoard(endRow, endCol)
         THEN IF \/ ~piecePinned
                 \/ pinDirection = direction
                 \/ pinDirection = <<-direction[1], -direction[2]>>
              THEN LET endPiece == b[endRow][endCol]
                   IN IF endPiece = "--"
                      THEN <<Move(<<row, col>>, <<endRow, endCol>>, b, FALSE, FALSE)>>
                           \o bishopRay(b, enemyColor, row, col, direction, piecePinned,
                                        pinDirection, i + 1)
                      ELSE IF Char0(endPiece) = enemyColor
                      THEN <<Move(<<row, col>>, <<endRow, endCol>>, b, FALSE, FALSE)>>
                      ELSE <<>>
              ELSE <<>>
         \* the square is off the board: the loop goes on to the next i
         ELSE bishopRay(b, enemyColor, row, col, direction, piecePinned,
                        pinDirection, i + 1)

getBishopMoves(self, row, col, moves) ==
    LET b == self.board
        enemyColor == IF self.whiteToMove THEN "b" ELSE "w"
        idx == PinIndex(self.pins, row, col, Len(self.pins))
        piecePinned == idx # 0
        pinDirection == IF piecePinned THEN <<self.pins[idx][3], self.pins[idx][4]>>
                        ELSE <<>>
        pinsLeft == IF piecePinned THEN ListRemove(self.pins, self.pins[idx])
                    ELSE self.pins
        Ray(k) == bishopRay(b, enemyColor, row, col, bishopDirections[k], piecePinned,
                            pinDirection, 1)
    IN [self |-> [self EXCEPT !.pins = pinsLeft],
        moves |-> moves \o Ray(1) \o Ray(2) \o Ray(3) \o Ray(4)]

getQueenMoves(self, row, col, moves) ==
    Bind(getRookMoves(self, row, col, moves),
         LAMBDA r : getBishopMoves(r.self, row, col, r.moves))

getKnightMoves(self, row, col, moves) ==
    LET allyColor == IF self.whiteToMove THEN "w" ELSE "b"
        idx == PinIndex(self.pins, row, col, Len(self.pins))
        piecePinned == idx # 0
        pinsLeft == IF piecePinned THEN ListRemove(self.pins, self.pins[idx])
                    ELSE self.pins
        Ok(knightMove) ==
            /\ OnBoard(row + knightMove[1], col + knightMove[2])
            /\ ~piecePinned
            /\ Char0(self.board[row + knightMove[1]][col + knightMove[2]]) # allyColor
    IN [self |-> [self EXCEPT !.pins = pinsLeft],
        moves |-> moves \o
            Bind(SelectSeq(knightMoves, Ok),
                 LAMBDA jumps :
                   [k \in 1..Len(jumps) |->
                      Move(<<row, col>>, <<row + jumps[k][1], col + jumps[k][2]>>,
                           self.board, FALSE, FALSE)])]

rowMoves == <<-1, -1, -1, 0, 0, 1, 1, 1>>
colMoves == <<-1, 0, 1, -1, 1, -1, 0, 1>>

\* self with the side to move's king-location attribute set to sq.
SetKingLocation(self, allyColor, sq) ==
    IF allyColor = "w" THEN [self EXCEPT !.whiteKingLocation = sq]
    ELSE [self EXCEPT !.blackKingLocation = sq]

\* GameState.getKingMoves.  Each of the eight steps that stays on the board
\* and does not land on an ally sets the king location to the end square,
\* runs checkForPinsAndChecks, appends the move when that reports no check,
\* and sets the king location to (row, col): after the loop the location is
\* (row, col) if any step got that far, and untouched otherwise.
getKingMoves(self, row, col, moves) ==
    LET allyColor == IF self.whiteToMove THEN "w" ELSE "b"
        steps == [i \in 1..8 |-> <<row + rowMoves[i], col + colMoves[i]>>]
        Tried(end) == /\ OnBoard(end[1], end[2])
                      /\ Char0(self.board[end[1]][end[2]]) # allyColor
        Safe(end) == ~checkForPinsAndChecks(SetKingLocation(self, allyColor, end)).inCheck
        tried == SelectSeq(steps, Tried)
    IN [self |-> IF tried # <<>> THEN SetKingLocation(self, allyColor, <<row, col>>)
                 ELSE self,
        moves |-> moves \o
            Bind(SelectSeq(tried, Safe),
                 LAMBDA safe :
                   [k \in 1..Len(safe) |->
                      Move(<<row, col>>, safe[k], self.board, FALSE, FALSE)])]

\* ------------------------------------------------------------ move lists

\* self.moveFunctions[piece](row, col, moves)
moveFunctions(piece, self, row, col, moves) ==
    CASE piece = "p" -> getPawnMoves(self, row, col, moves)
      [] piece = "R" -> getRookMoves(self, row, col, moves)
      [] piece = "K" -> getKingMoves(self, row, col, moves)
      [] piece = "Q" -> getQueenMoves(self, row, col, moves)
      [] piece = "N" -> getKnightMoves(self, row, col, moves)
      [] piece = "B" -> getBishopMoves(self, row, col, moves)

\* The body of the two loops of getAllPossibleMoves for one square; acc is
\* the pair [self, moves] so far.
visitSquare(acc, row, col) ==
    LET turn == Char0(acc.self.board[row][col])
    IN IF (turn = "w" /\ acc.self.whiteToMove) \/ (turn = "b" /\ ~acc.self.whiteToMove)
       THEN moveFunctions(Char1(acc.self.board[row][col]), acc.self, row, col, acc.moves)
       ELSE acc

\* The two loops of getAllPossibleMoves over the squares lo..hi, a square
\* being numbered 8 * row + col: the squares are visited in the order of the
\* loops, each starting from the pair [self, moves] the one before left.
\* The range is cut in two so that the evaluation does not nest 64 deep.
RECURSIVE scanSquares(_, _, _)
scanSquares(acc, lo, hi) ==
    IF lo = hi THEN visitSquare(acc, lo \div 8, lo % 8)
    ELSE Bind(scanSquares(acc, lo, (lo + hi) \div 2),
              LAMBDA first : scanSquares(first, (lo + hi) \div 2 + 1, hi))

\* GameState.getAllPossibleMoves: the pair [self, moves] it leaves and returns.
getAllPossibleMoves(self) ==
    Bind([self |-> self, moves |-> <<>>], LAMBDA acc : scanSquares(acc, 0, 63))

\* The loop of getValidMoves that walks from the king toward the checker,
\* from step i on: the squares it appends to validSquares.
RECURSIVE walkToChecker(_, _, _, _)
walkToChecker(kingRow, kingCol, check, i) ==
    IF i > 7 THEN <<>>
    ELSE
      LET validSquare == <<kingRow + check[3] * i, kingCol + check[4] * i>>
      IN IF validSquare[1] = check[1] /\ validSquare[2] = check[2]
         THEN <<validSquare>>
         ELSE <<validSquare>> \o walkToChecker(kingRow, kingCol, check, i + 1)

\* `sq in validSquares`
InList(sq, list) == \E k \in 1..Len(list) : list[k] = sq

\* The backward loop of getValidMoves that removes the moves which neither
\* block, capture nor move the king.  moves.remove(moves[i]) removes the
\* first move whose moveID is that of moves[i]; the moves of one list have
\* distinct start and end squares, so that is moves[i] itself.
filterMoves(moves, validSquares) ==
    LET Kept(m) == \/ Char1(m.pieceMoved) = "K"
                   \/ InList(<<m.endRow, m.endCol>>, validSquares)
    IN SelectSeq(moves, Kept)

\* The branch of getValidMoves for one piece giving check.
singleCheckMoves(self1, kingRow, kingCol) ==
    LET check == self1.checks[1]
        checkRow == check[1]
        checkCol == check[2]
        pieceChecking == self1.board[checkRow][checkCol]
        validSquares ==
            IF Char1(pieceChecking) = "N"
            THEN << <<checkRow, checkCol>> >>
            ELSE walkToChecker(kingRow, kingCol, check, 1)
    IN Bind(getAllPossibleMoves(self1),
            LAMBDA all : [self |-> all.self,
                          moves |-> filterMoves(all.moves, validSquares)])

\* getValidMoves after line 76 has stored what checkForPinsAndChecks found.
validMovesFrom(self1) ==
    LET king == IF self1.whiteToMove THEN self1.whiteKingLocation
                ELSE self1.blackKingLocation
        kingRow == king[1]
        kingCol == king[2]
    IN IF self1.inCheck
       THEN IF Len(self1.checks) = 1
            THEN singleCheckMoves(self1, kingRow, kingCol)
            ELSE getKingMoves(self1, kingRow, kingCol, <<>>)
       ELSE getAllPossibleMoves(self1)

\* GameState.getValidMoves: the pair [self, moves] it leaves and returns.
getValidMoves(self) ==
    Bind(checkForPinsAndChecks(self),
         LAMBDA cpc :
           Bind([self EXCEPT !.inCheck = cpc.inCheck, !.pins = cpc.pins,
                             !.checks = cpc.checks],
                LAMBDA self1 : validMovesFrom(self1)))

\* ------------------------------------------------------------ make and undo

\* GameState.makeMove: the pair [self, raised] it leaves.  promotionPiece is
\* what input() returns.  A promotion move evaluates self.pieceMoved, an
\* attribute GameState does not have: the call raises AttributeError with
\* the assignments of lines 31-39 done and lines 43-52 not reached.
makeMove(self, move, promotionPiece) ==
    LET board1 == [self.board EXCEPT ![move.startRow][move.startCol] = "--"]
        board2 == [board1 EXCEPT ![move.endRow][move.endCol] = move.pieceMoved]
        self1 == [self EXCEPT
                    !.board = board2,
                    !.moveLog = Append(@, move),
                    !.whiteToMove = ~@,
                    !.blackKingLocation =
                        IF move.pieceMoved = "bK" THEN <<move.endRow, move.endCol>> ELSE @,
                    !.whiteKingLocation =
                        IF move.pieceMoved = "wK" THEN <<move.endRow, move.endCol>> ELSE @]
        board3 == IF move.isEnpassantMove
                  THEN [board2 EXCEPT ![move.startRow][move.endCol] = "--"]
                  ELSE board2
    IN IF move.isPawnPromotion
       THEN [self |-> self1, raised |-> "AttributeError"]
       ELSE [self |-> [self1 EXCEPT
                         !.board = board3,
                         !.enpassantPossible =
                             IF /\ Char1(move.pieceMoved) = "p"
                                /\ Abs(move.startRow - move.endRow) = 2
                             THEN <<(move.startRow + move.endRow) \div 2, move.startCol>>
                             ELSE <<>>],
             raised |-> ""]

\* GameState.undoMove: the self it leaves.
undoMove(self) ==
    IF Len(self.moveLog) # 0
    THEN
      LET move == self.moveLog[Len(self.moveLog)]
          board1 == [self.board EXCEPT ![move.startRow][move.startCol] = move.pieceMoved]
          board2 == [board1 EXCEPT ![move.endRow][move.endCol] = move.pieceCaptured]
          board3 == IF move.isEnpassantMove
                    THEN [[board2 EXCEPT ![move.endRow][move.endCol] = "--"]
                            EXCEPT ![move.startRow][move.endCol] = move.pieceCaptured]
                    ELSE board2
          ep1 == IF move.isEnpassantMove THEN <<move.endRow, move.endCol>>
                 ELSE self.enpassantPossible
          ep2 == IF Char1(move.pieceMoved) = "p" /\ Abs(move.startRow - move.endRow) = 2
                 THEN <<>>
                 ELSE ep1
      IN [self EXCEPT
            !.moveLog = SubSeq(@, 1, Len(@) - 1),
            !.board = board3,
            !.whiteToMove = ~@,
            !.blackKingLocation =
                IF move.pieceMoved = "bK" THEN <<move.endRow, move.endCol>> ELSE @,
            !.whiteKingLocation =
                IF move.pieceMoved = "wK" THEN <<move.endRow, move.endCol>> ELSE @,
            !.enpassantPossible = ep2]
    ELSE self

\* ------------------------------------------------------------ the GameState object

\* The GameState object as a record of its attributes.
Self ==
    [board |-> board, whiteToMove |-> whiteToMove, moveLog |-> moveLog,
     inCheck |-> inCheck, pins |-> pins, checks |-> checks,
     blackKingLocation |-> blackKingLocation,
     whiteKingLocation |-> whiteKingLocation,
     enpassantPossible |-> enpassantPossible]

\* The attributes of the object become those of the record s.
Becomes(s) ==
    /\ board' = s.board
    /\ whiteToMove' = s.whiteToMove
    /\ moveLog' = s.moveLog
    /\ inCheck' = s.inCheck
    /\ pins' = s.pins
    /\ checks' = s.checks
    /\ blackKingLocation' = s.blackKingLocation
    /\ whiteKingLocation' = s.whiteKingLocation
    /\ enpassantPossible' = s.enpassantPossible

\* The board literal of GameState.__init__.
StartBoard ==
    [r \in Rows |->
       CASE r = 0 -> [c \in Rows |-> <<"bR", "bN", "bB", "bQ", "bK", "bB", "bN", "bR">>[c + 1]]
         [] r = 1 -> [c \in Rows |-> "bp"]
         [] r = 6 -> [c \in Rows |-> "wp"]
         [] r = 7 -> [c \in Rows |-> <<"wR", "wN", "wB", "wQ", "wK", "wB", "wN", "wR">>[c + 1]]
         [] OTHER -> [c \in Rows |-> "--"]]

\* What input("Promote to Q, R, B, or N: ") is asked to return.
PromotionPieces == {"Q", "R", "B", "N"}

\* What makeMove reads from input() for the move: input() is called for a
\* promotion move only, and "" stands for nothing read.
Inputs(move) == IF move.isPawnPromotion THEN PromotionPieces ELSE {""}

\* GameState.__init__.  enpassantPossible is an attribute __init__ does not
\* create and nothing reads; makeMove creates it.  It is modelled as the
\* empty tuple, the value makeMove gives it when there is no target.
Init ==
    /\ board = StartBoard
    /\ whiteToMove = TRUE
    /\ moveLog = <<>>
    /\ inCheck = FALSE
    /\ pins = <<>>
    /\ checks = <<>>
    /\ blackKingLocation = <<0, 4>>
    /\ whiteKingLocation = <<7, 4>>
    /\ enpassantPossible = <<>>
    /\ validMoves = <<>>
    /\ queried = FALSE
    /\ raised = ""

\* ------------------------------------------------------------ operations
\* The caller of the engine: it asks for the valid moves of the position,
\* makes one of them or undoes the last move, and asks again.  validMoves is
\* the list the last getValidMoves call returned, queried says that no move
\* was made or undone since, raised is the exception that ended the program.

\* validMoves = gs.getValidMoves()
GetValidMoves ==
    /\ raised = ""
    /\ Len(moveLog) < MaxPly
    /\ \E r \in {getValidMoves(Self)} :
          /\ Becomes(r.self)
          /\ validMoves' = r.moves
    /\ queried' = TRUE
    /\ raised' = raised

\* gs.makeMove(move) for a move of the list getValidMoves returned
MakeMove ==
    /\ raised = ""
    /\ queried
    /\ \E i \in 1..Len(validMoves) :
         \E promotionPiece \in Inputs(validMoves[i]) :
         \E r \in {makeMove(Self, validMoves[i], promotionPiece)} :
            /\ Becomes(r.self)
            /\ raised' = r.raised
    /\ validMoves' = <<>>
    /\ queried' = FALSE

\* gs.undoMove()
UndoMove ==
    /\ raised = ""
    /\ \E s \in {undoMove(Self)} : Becomes(s)
    /\ validMoves' = <<>>
    /\ queried' = FALSE
    /\ raised' = raised

Next == GetValidMoves \/ MakeMove \/ UndoMove

\* The engine from the position GameState() constructs.
Spec == Init /\ [][Next]_vars

\* ------------------------------------------------------------ positions
\* Positions the engine is asked about besides the starting one.  Each is a
\* set of <<row, col, piece>> and the side to move; each can arise in play.

\* The board holding the given pieces and nothing else.
PositionBoard(pieces) ==
    [r \in Rows |-> [c \in Rows |->
        IF \E x \in pieces : x[1] = r /\ x[2] = c
        THEN (CHOOSE x \in pieces : x[1] = r /\ x[2] = c)[3]
        ELSE "--"]]

\* White rook e2 pinned on the e-file by the rook e8 (white king e1).
PinnedRook ==
    [pieces |-> {<<7, 4, "wK">>, <<6, 4, "wR">>, <<0, 4, "bR">>, <<0, 0, "bK">>},
     whiteToMove |-> TRUE]

\* Black pawn e7 pinned on the diagonal d8-f6 by the bishop d8 (black king
\* f6), with a white knight on d6 that the pawn attacks.
PinnedPawn ==
    [pieces |-> {<<2, 5, "bK">>, <<1, 4, "bp">>, <<0, 3, "wB">>, <<2, 3, "wN">>,
                 <<7, 7, "wK">>},
     whiteToMove |-> FALSE]

\* White king h1 checked along the first rank by the rook a1, the second
\* rank held by the rook b2; the white rook a5 can take the checker.
RookCheck ==
    [pieces |-> {<<7, 7, "wK">>, <<7, 0, "bR">>, <<6, 1, "bR">>, <<3, 0, "wR">>,
                 <<0, 7, "bK">>},
     whiteToMove |-> TRUE]

\* White king e1 in double check: the knight went from e5 to d3 and
\* uncovered the rook e7.  White also has a queen on a1.
DoubleCheck ==
    [pieces |-> {<<7, 4, "wK">>, <<1, 4, "bR">>, <<5, 3, "bN">>, <<7, 0, "wQ">>,
                 <<0, 0, "bK">>},
     whiteToMove |-> TRUE]

\* White pawn e2 on its starting square, black pawn d4 beside e4.
EnPassant ==
    [pieces |-> {<<7, 7, "wK">>, <<0, 0, "bK">>, <<6, 4, "wp">>, <<4, 3, "bp">>},
     whiteToMove |-> TRUE]

\* White pawn a7 one step from the far rank, a black knight on b8 to take.
Promotion ==
    [pieces |-> {<<7, 4, "wK">>, <<0, 4, "bK">>, <<1, 0, "wp">>, <<0, 1, "bN">>,
                 <<6, 7, "bp">>},
     whiteToMove |-> TRUE]

TestPositions == {PinnedRook, PinnedPawn, RookCheck, DoubleCheck, EnPassant, Promotion}

\* The square of the given piece in a set of pieces.
SquareOf(pieces, piece) ==
    LET x == CHOOSE y \in pieces : y[3] = piece IN <<x[1], x[2]>>

\* A GameState whose board, side to move and king locations were set to one
\* of the positions, its other attributes as after construction.
InitPos ==
    \E pos \in TestPositions :
      /\ board = PositionBoard(pos.pieces)
      /\ whiteToMove = pos.whiteToMove
      /\ moveLog = <<>>
      /\ inCheck = FALSE
      /\ pins = <<>>
      /\ checks = <<>>
      /\ blackKingLocation = SquareOf(pos.pieces, "bK")
      /\ whiteKingLocation = SquareOf(pos.pieces, "wK")
      /\ enpassantPossible = <<>>
      /\ validMoves = <<>>
      /\ queried = FALSE
      /\ raised = ""

\* The engine from each of the positions.
SpecPos == InitPos /\ [][Next]_vars

\* ------------------------------------------------------------ the rules of chess
\* What the engine's answers are compared with: attack, movement and
\* legality as the rules of chess define them (castling and en passant
\* aside), read off the board alone and independent of the operators above.

Squares == Rows \X Rows

At(b, sq) == b[sq[1]][sq[2]]

SideToMove == IF whiteToMove THEN "w" ELSE "b"

Opponent(colour) == IF colour = "w" THEN "b" ELSE "w"

KingOf(colour) == IF colour = "w" THEN "wK" ELSE "bK"

\* The row step of a pawn of the colour.
Forward(colour) == IF colour = "w" THEN -1 ELSE 1

Sign(n) == IF n > 0 THEN 1 ELSE IF n < 0 THEN -1 ELSE 0

Orthogonal(from, to) == from # to /\ (from[1] = to[1] \/ from[2] = to[2])

Diagonal(from, to) == from # to /\ Abs(from[1] - to[1]) = Abs(from[2] - to[2])

Aligned(from, to) == Orthogonal(from, to) \/ Diagonal(from, to)

\* The squares strictly between two aligned squares.
Between(from, to) ==
    IF Aligned(from, to)
    THEN {<<from[1] + k * Sign(to[1] - from[1]), from[2] + k * Sign(to[2] - from[2])>> :
            k \in 1..((IF Abs(to[1] - from[1]) > Abs(to[2] - from[2])
                       THEN Abs(to[1] - from[1]) ELSE Abs(to[2] - from[2])) - 1)}
    ELSE {}

ClearPath(b, from, to) == \A sq \in Between(from, to) : At(b, sq) = "--"

\* t lies on the straight line through the squares k and p.
Collinear(k, p, t) ==
    (t[1] - k[1]) * (p[2] - k[2]) = (t[2] - k[2]) * (p[1] - k[1])

\* The piece on `from` attacks the square `to`.
Attacks(b, from, to) ==
    LET piece == At(b, from)
        dr == to[1] - from[1]
        dc == to[2] - from[2]
    IN CASE Char1(piece) = "p" -> dr = Forward(Char0(piece)) /\ Abs(dc) = 1
         [] Char1(piece) = "N" -> {Abs(dr), Abs(dc)} = {1, 2}
         [] Char1(piece) = "K" -> from # to /\ Abs(dr) <= 1 /\ Abs(dc) <= 1
         [] Char1(piece) = "R" -> Orthogonal(from, to) /\ ClearPath(b, from, to)
         [] Char1(piece) = "B" -> Diagonal(from, to) /\ ClearPath(b, from, to)
         [] Char1(piece) = "Q" -> Aligned(from, to) /\ ClearPath(b, from, to)
         [] OTHER -> FALSE

\* A piece of the colour attacks the square.
Attacked(b, sq, colour) ==
    \E from \in Squares : Char0(At(b, from)) = colour /\ Attacks(b, from, sq)

KingSquares(b, colour) == {sq \in Squares : At(b, sq) = KingOf(colour)}

OneKingEach(b) ==
    Cardinality(KingSquares(b, "w")) = 1 /\ Cardinality(KingSquares(b, "b")) = 1

\* The king of the colour is attacked.
InCheckRef(b, colour) ==
    \E k \in KingSquares(b, colour) : Attacked(b, k, Opponent(colour))

\* The enemy pieces that attack the king of the colour.
Checkers(b, colour) ==
    {from \in Squares :
        /\ Char0(At(b, from)) = Opponent(colour)
        /\ \E k \in KingSquares(b, colour) : Attacks(b, from, k)}

\* The movement rule of the piece on `from` lets it go to `to`.
Reaches(b, from, to) ==
    LET piece == At(b, from)
        colour == Char0(piece)
        dr == to[1] - from[1]
        dc == to[2] - from[2]
    IN /\ colour # "-"
       /\ Char0(At(b, to)) # colour
       /\ IF Char1(piece) = "p"
          THEN \/ dc = 0 /\ dr = Forward(colour) /\ At(b, to) = "--"
               \/ /\ dc = 0 /\ dr = 2 * Forward(colour)
                  /\ from[1] = (IF colour = "w" THEN 6 ELSE 1)
                  /\ At(b, to) = "--" /\ ClearPath(b, from, to)
               \/ /\ Abs(dc) = 1 /\ dr = Forward(colour)
                  /\ Char0(At(b, to)) = Opponent(colour)
          ELSE Attacks(b, from, to)

\* The board with the piece on `from` moved to `to`.
After(b, from, to) ==
    [[b EXCEPT ![from[1]][from[2]] = "--"] EXCEPT ![to[1]][to[2]] = At(b, from)]

\* The legal moves of the colour, as pairs of squares.
LegalRef(b, colour) ==
    {ft \in Squares \X Squares :
        /\ Char0(At(b, ft[1])) = colour
        /\ Reaches(b, ft[1], ft[2])
        /\ ~InCheckRef(After(b, ft[1], ft[2]), colour)}

\* The piece of the colour on sq is pinned by the enemy piece on pinner: it
\* is the only piece between its king and that piece, a slider of the line.
Pinned(b, colour, sq, pinner) ==
    \E k \in KingSquares(b, colour) :
        /\ Char0(At(b, sq)) = colour
        /\ Char0(At(b, pinner)) = Opponent(colour)
        /\ \/ Orthogonal(k, pinner) /\ Char1(At(b, pinner)) \in {"R", "Q"}
           \/ Diagonal(k, pinner) /\ Char1(At(b, pinner)) \in {"B", "Q"}
        /\ sq \in Between(k, pinner)
        /\ \A x \in Between(k, pinner) \ {sq} : At(b, x) = "--"

\* A move of the piece on `from` to `to` keeps every pin on it.
PinRespecting(b, colour, from, to) ==
    \A pinner \in Squares, k \in KingSquares(b, colour) :
        Pinned(b, colour, from, pinner) => Collinear(k, pinner, to)

StartOf(m) == <<m.startRow, m.startCol>>

EndOf(m) == <<m.endRow, m.endCol>>

\* The list getValidMoves returned, as pairs of squares.
Returned == {<<StartOf(validMoves[i]), EndOf(validMoves[i])>> : i \in 1..Len(validMoves)}

\* validMoves is the answer of getValidMoves for the position as it stands.
Answered == queried /\ raised = ""

\* ------------------------------------------------------------ claims

\* C1: in a reachable position, makeMove of any move getValidMoves returned
\* followed by undoMove restores the board, the side to move, both king
\* locations, the en-passant target and the move log.
UndoRestoresPosition ==
    Answered =>
      \A i \in 1..Len(validMoves) :
        LET made == makeMove(Self, validMoves[i], "Q")
            back == undoMove(made.self)
        IN made.raised = "" =>
             /\ back.board = board
             /\ back.whiteToMove = whiteToMove
             /\ back.whiteKingLocation = whiteKingLocation
             /\ back.blackKingLocation = blackKingLocation
             /\ back.enpassantPossible = enpassantPossible
             /\ back.moveLog = moveLog

\* C2: after any sequence of getValidMoves, makeMove and undoMove calls from
\* the initial position, whiteKingLocation is the square holding "wK" and
\* blackKingLocation the square holding "bK".
KingLocationsMatchBoard ==
    /\ At(board, whiteKingLocation) = "wK"
    /\ At(board, blackKingLocation) = "bK"

\* C3: in a position with one king per colour where the side not to move is
\* not attacked, every move getValidMoves returns leaves the mover's king
\* unattacked once applied, captures no king, and leaves one king per colour.
NoMoveExposesKing ==
    (Answered /\ OneKingEach(board) /\ ~InCheckRef(board, Opponent(SideToMove))) =>
      \A i \in 1..Len(validMoves) :
        LET after == After(board, StartOf(validMoves[i]), EndOf(validMoves[i]))
        IN /\ ~InCheckRef(after, SideToMove)
           /\ Char1(validMoves[i].pieceCaptured) # "K"
           /\ OneKingEach(after)

\* C4: for a pinned piece of the side to move (the king not in check), every
\* move returned for it ends on the line through king and pinner, every move
\* along that line its movement rule allows is returned, and a pinned
\* knight gets no move.
PinnedMovesOnPinLine ==
    (Answered /\ OneKingEach(board) /\ ~InCheckRef(board, SideToMove)) =>
      \A sq \in Squares, pinner \in Squares, k \in KingSquares(board, SideToMove) :
        Pinned(board, SideToMove, sq, pinner) =>
          /\ \A i \in 1..Len(validMoves) :
               StartOf(validMoves[i]) = sq => Collinear(k, pinner, EndOf(validMoves[i]))
          /\ \A t \in Squares :
               (Reaches(board, sq, t) /\ Collinear(k, pinner, t)) => <<sq, t>> \in Returned
          /\ Char1(At(board, sq)) = "N" =>
               \A i \in 1..Len(validMoves) : StartOf(validMoves[i]) # sq

\* C5: when exactly one enemy piece checks the king of the side to move,
\* getValidMoves returns exactly the king moves to unattacked squares, the
\* pin-respecting captures of the checker by other pieces, and the
\* pin-respecting moves of other pieces onto a square strictly between the
\* king and a sliding checker.
SingleCheckMoves ==
    (Answered /\ OneKingEach(board) /\ Cardinality(Checkers(board, SideToMove)) = 1) =>
      LET k == CHOOSE sq \in KingSquares(board, SideToMove) : TRUE
          checker == CHOOSE sq \in Checkers(board, SideToMove) : TRUE
          kingMoves ==
              {ft \in {k} \X Squares :
                  /\ Reaches(board, k, ft[2])
                  /\ ~Attacked(After(board, k, ft[2]), ft[2], Opponent(SideToMove))}
          otherMoves ==
              {ft \in (Squares \ {k}) \X Squares :
                  /\ Char0(At(board, ft[1])) = SideToMove
                  /\ Reaches(board, ft[1], ft[2])
                  /\ PinRespecting(board, SideToMove, ft[1], ft[2])
                  /\ \/ ft[2] = checker
                     \/ /\ Char1(At(board, checker)) \in {"R", "B", "Q"}
                        /\ ft[2] \in Between(k, checker)}
      IN Returned = kingMoves \cup otherMoves

\* C6: when two enemy pieces attack the king of the side to move, every move
\* getValidMoves returns is a move of that king to a square not attacked
\* after the move.
DoubleCheckKingOnly ==
    (Answered /\ OneKingEach(board) /\ Cardinality(Checkers(board, SideToMove)) >= 2) =>
      \A i \in 1..Len(validMoves) :
        /\ validMoves[i].pieceMoved = KingOf(SideToMove)
        /\ ~Attacked(After(board, StartOf(validMoves[i]), EndOf(validMoves[i])),
                     EndOf(validMoves[i]), Opponent(SideToMove))

\* C7: getValidMoves returns the empty list with inCheck set exactly when
\* the side to move is checkmated, the empty list with inCheck clear exactly
\* when it is stalemated, and a non-empty list otherwise.
TerminalClassification ==
    (Answered /\ OneKingEach(board)) =>
      /\ (validMoves = <<>> /\ inCheck) <=>
           (InCheckRef(board, SideToMove) /\ LegalRef(board, SideToMove) = {})
      /\ (validMoves = <<>> /\ ~inCheck) <=>
           (~InCheckRef(board, SideToMove) /\ LegalRef(board, SideToMove) = {})

\* C8: after a two-square pawn advance that lands beside an enemy pawn, the
\* next getValidMoves holds a move of that pawn onto the skipped square,
\* flagged isEnpassantMove, and making it empties the square of the pawn
\* that advanced and puts the capturing pawn on the skipped square.
EnPassantOffered ==
    (Answered /\ moveLog # <<>>) =>
      LET last == moveLog[Len(moveLog)]
          target == <<(last.startRow + last.endRow) \div 2, last.startCol>>
      IN (/\ Char1(last.pieceMoved) = "p"
          /\ Abs(last.startRow - last.endRow) = 2
          /\ Char0(last.pieceMoved) = Opponent(SideToMove)
          /\ At(board, EndOf(last)) = last.pieceMoved
          /\ enpassantPossible = target) =>
           \A c \in {last.endCol - 1, last.endCol + 1} \cap Rows :
             (/\ Char0(board[last.endRow][c]) = SideToMove
              /\ Char1(board[last.endRow][c]) = "p"
              /\ ~InCheckRef([After(board, <<last.endRow, c>>, target)
                                EXCEPT ![last.endRow][last.endCol] = "--"],
                             SideToMove)) =>
               \E i \in 1..Len(validMoves) :
                 /\ StartOf(validMoves[i]) = <<last.endRow, c>>
                 /\ EndOf(validMoves[i]) = target
                 /\ validMoves[i].isEnpassantMove
                 /\ LET made == makeMove(Self, validMoves[i], "Q")
                    IN /\ made.raised = ""
                       /\ At(made.self.board, EndOf(last)) = "--"
                       /\ At(made.self.board, target) = board[last.endRow][c]

\* C9: a returned move has isPawnPromotion set exactly when it is a pawn
\* move onto the far rank, and making such a move with any of the kinds Q,
\* R, B, N raises nothing and leaves a piece of the mover's colour and the
\* chosen kind on the end square and the start square empty.
PromotionApplies ==
    Answered =>
      \A i \in 1..Len(validMoves) :
        LET m == validMoves[i]
        IN /\ m.isPawnPromotion <=>
                (/\ Char1(m.pieceMoved) = "p"
                 /\ m.endRow = (IF Char0(m.pieceMoved) = "w" THEN 0 ELSE 7))
           /\ m.isPawnPromotion =>
                \A kind \in PromotionPieces :
                  LET made == makeMove(Self, m, kind)
                  IN /\ made.raised = ""
                     /\ Char0(At(made.self.board, EndOf(m))) = Char0(m.pieceMoved)
                     /\ Char1(At(made.self.board, EndOf(m))) = kind
                     /\ At(made.self.board, StartOf(m)) = "--"

\* C10: in the initial position getValidMoves returns exactly 20 moves for
\* white, and after any one of them is made it returns exactly 20 moves for
\* black; the moves of a list are pairwise different.
InitialMoveCounts ==
    Answered =>
      /\ (board = StartBoard /\ whiteToMove) =>
           Len(validMoves) = 20 /\ Cardinality(Returned) = 20
      /\ (Len(moveLog) = 1 /\ ~whiteToMove) =>
           Len(validMoves) = 20 /\ Cardinality(Returned) = 20

\* C10 takes place: black was asked for its moves after a first white move
\* and got 20 of them.
InitialMoveCountsReached ==
    /\ Answered
    /\ Len(moveLog) = 1
    /\ ~whiteToMove
    /\ moveLog[1].pieceMoved \in {"wp", "wN"}
    /\ Len(validMoves) = 20

\* The end squares of the moves of a list.
Destinations(moves) == {EndOf(moves[i]) : i \in 1..Len(moves)}

\* The object with no pin recorded: every piece is unpinned.
Unpinned == [Self EXCEPT !.pins = <<>>]

\* C11: for an unpinned rook, bishop or queen of the side to move, on any
\* square, the generated destinations are exactly the squares reached by
\* stepping outward through empty squares along its directions, the first
\* enemy-occupied square included and the first ally-occupied square
\* excluded; the queen's are the union of the rook's and the bishop's rays.
SlidingRays ==
    raised = "" =>
      \A sq \in Squares :
        (/\ Char0(At(board, sq)) = SideToMove
         /\ Char1(At(board, sq)) \in {"R", "B", "Q"}) =>
          /\ Destinations(moveFunctions(Char1(At(board, sq)), Unpinned,
                                        sq[1], sq[2], <<>>).moves)
               = {t \in Squares : Reaches(board, sq, t)}
          /\ Char1(At(board, sq)) = "Q" =>
               Destinations(getQueenMoves(Unpinned, sq[1], sq[2], <<>>).moves)
                 = Destinations(getRookMoves(Unpinned, sq[1], sq[2], <<>>).moves)
                     \cup Destinations(getBishopMoves(Unpinned, sq[1], sq[2], <<>>).moves)

\* C12: a call of getValidMoves leaves the board, the side to move, both
\* king locations and the move log as they were, and a second call right
\* after it returns the same list of moves in the same order.
GetValidMovesKeepsPosition ==
    raised = "" =>
      LET first == getValidMoves(Self)
          second == getValidMoves(first.self)
      IN /\ first.self.board = board
         /\ first.self.whiteToMove = whiteToMove
         /\ first.self.whiteKingLocation = whiteKingLocation
         /\ first.self.blackKingLocation = blackKingLocation
         /\ first.self.moveLog = moveLog
         /\ second.moves = first.moves

====
